---- MODULE Spec2Model ----
(***************************************************************************)
(* Model of the Serpens deployment API (src/deployment-api): the webhook   *)
(* gateway, the deploy pipeline run as an asyncio task, the Cloudflare     *)
(* ingress table, the ports table and the Swarm stack set.                 *)
(*                                                                         *)
(* Representation of values                                                *)
(*   - a domain name is the sequence of its dot-separated labels,          *)
(*     "light.volodic.com" is <<"light", "volodic", "com">>;               *)
(*   - a memory string is the sequence of its characters;                  *)
(*   - a volume path is the sequence of its "/"-separated segments;        *)
(*   - a signature header is its scheme prefix and the digest that         *)
(*     follows, the digest being the number the hex string stands for;     *)
(*   - a timestamp is the number of whole seconds on the wall clock.       *)
(***************************************************************************)
EXTENDS Integers, Sequences, FiniteSets, TLC

VARIABLES
    req,         \* the request handled last
    resp,        \* the HTTP response given to it
    pipelines,   \* the deploy_service tasks created so far, in creation order
    cur,         \* the task running on the event loop between two awaits (0: none)
    stack,       \* the stacks the orchestrator runs (names)
    cfFile,      \* /etc/cloudflared/config.yml
    cfBackups,   \* /etc/cloudflared/backups: timestamp -> content
    portsFile,   \* /var/www/port-config/ports.json
    portsBackups,\* /var/www/port-config/backups: timestamp -> content
    now,         \* the wall clock second observed last
    calls,       \* the call made last on each manager from outside a task (cf,
                 \* ports), and the successful routing add right before the
                 \* last routing call (prev)
    checked      \* the call made last on a function that reads and checks:
                 \* its name, its arguments, its result

vars == <<req, resp, pipelines, cur, stack, cfFile, cfBackups,
          portsFile, portsBackups, now, calls, checked>>

tables == <<cfFile, cfBackups, portsFile, portsBackups>>

----------------------------------------------------------------------------
(* Bounds of the model *)

MaxPipelines == 2    \* deploy tasks created in one behaviour
MaxTime == 1         \* last wall clock second
HashMod == 3         \* number of distinct digests
MaxIngress == 2      \* rules in the routing table when a direct add is still made
MaxMemValue == 65    \* largest number written in a memory string

(* Program constants *)

WEBHOOK_SECRET == 1
PORT_MIN == 3000
PORT_MAX == 9999
MEM_MIN_M == 64
MEM_MAX_G == 1

ALLOWED_REPOS == {"volodicd/geminae_serpens"}

Services == {"light", "blog"}

----------------------------------------------------------------------------
(* Small helpers *)

Max(S) == CHOOSE x \in S : \A y \in S : y <= x

Has(r, k) == k \in DOMAIN r

Last(s) == s[Len(s)]

Front(s) == SubSeq(s, 1, Len(s) - 1)

Reverse(s) == [i \in 1..Len(s) |-> s[Len(s) + 1 - i]]

\* list.insert(i, x) of Python, i counted from 0; a negative i counts from the end
InsertAt(s, i, x) ==
    LET j == IF i < 0 THEN (IF Len(s) + i < 0 THEN 0 ELSE Len(s) + i)
             ELSE (IF i > Len(s) THEN Len(s) ELSE i)
    IN  SubSeq(s, 1, j) \o <<x>> \o SubSeq(s, j + 1, Len(s))

RECURSIVE InsertAll(_, _, _)
\* xs inserted one after the other at the same position i
InsertAll(s, i, xs) ==
    IF xs = <<>> THEN s
    ELSE InsertAll(InsertAt(s, i, Head(xs)), i, Tail(xs))

----------------------------------------------------------------------------
(* The service configurations a fetch can return (serpens.yml, parsed) *)

PlatformSuffix == <<"volodic", "com">>

Dom(base) == <<base>> \o PlatformSuffix

BaseConfig(name, domain, port) ==
    [version     |-> "1.0",
     service     |-> [name |-> name, image |-> "ghcr.io/${GITHUB_REPOSITORY_OWNER}/svc:${TAG}"],
     routing     |-> [domain |-> domain, port |-> port],
     resources   |-> [memory |-> <<"6", "4", "m">>],
     healthcheck |-> [endpoint |-> "/health"],
     deployment  |-> [replicas |-> 1]]

CfgLight == BaseConfig("light", Dom("light"), 3000)

CfgBlog == BaseConfig("blog", Dom("blog"), 3001)

\* sub-paths declared
CfgBlogPaths ==
    [CfgBlog EXCEPT !.routing =
        [domain |-> Dom("blog"), port |-> 3001,
         paths  |-> <<[path |-> "/api", port |-> 3002]>>]]

\* the domain and the port of CfgLight, asked for by another service
CfgBlogClash == BaseConfig("blog", Dom("light"), 3000)

\* routing.port outside [3000, 9999]
CfgBadPort == BaseConfig("light", Dom("light"), 70000)

\* no resources block
CfgNoResources ==
    [version     |-> "1.0",
     service     |-> [name |-> "light", image |-> "ghcr.io/${GITHUB_REPOSITORY_OWNER}/svc:${TAG}"],
     routing     |-> [domain |-> Dom("light"), port |-> 3000],
     healthcheck |-> [endpoint |-> "/health"]]

\* no deployment block (the block is optional for the validators)
CfgNoDeployment ==
    [version     |-> "1.0",
     service     |-> [name |-> "light", image |-> "ghcr.io/${GITHUB_REPOSITORY_OWNER}/svc:${TAG}"],
     routing     |-> [domain |-> Dom("light"), port |-> 3000],
     resources   |-> [memory |-> <<"6", "4", "m">>],
     healthcheck |-> [endpoint |-> "/health"]]

\* deployment.network_mode: host
CfgHostNetwork ==
    [CfgLight EXCEPT !.deployment = [replicas |-> 1, network_mode |-> "host"]]

\* str(n) of a natural number, as the sequence of its characters
DigitChar(d) ==
    CASE d = 0 -> "0" [] d = 1 -> "1" [] d = 2 -> "2" [] d = 3 -> "3"
      [] d = 4 -> "4" [] d = 5 -> "5" [] d = 6 -> "6" [] d = 7 -> "7"
      [] d = 8 -> "8" [] d = 9 -> "9"

RECURSIVE FormatNat(_)
FormatNat(n) ==
    IF n < 10 THEN <<DigitChar(n)>>
    ELSE FormatNat(n \div 10) \o <<DigitChar(n % 10)>>

\* the memory string <value><unit>
MemString(value, unit) ==
    (IF value < 0 THEN <<"-">> \o FormatNat(0 - value) ELSE FormatNat(value))
    \o <<unit>>

MemUnits == {"m", "M", "g", "G"}

MemValues == (0 - 1)..MaxMemValue

\* the strings of the form <int><m|M|g|G>
MemStrings == {MemString(value, unit) : value \in MemValues, unit \in MemUnits}

\* strings of another form: no unit, no number, a unit alone, empty
MemStringsOther == {<<"6", "4">>, <<"x", "m">>, <<"m">>, <<"6", "4", "k">>, <<>>}

CfgWithMemory(mem) == [CfgLight EXCEPT !.resources = [memory |-> mem]]

NetworkModes == {"bridge", "overlay", "host", "none", "macvlan", "container:db"}

CfgWithNetworkMode(mode) ==
    [CfgLight EXCEPT !.deployment = [replicas |-> 1, network_mode |-> mode]]

Configs == {CfgLight, CfgBlog, CfgBlogPaths, CfgBlogClash, CfgBadPort,
            CfgNoResources, CfgNoDeployment}

\* the value of `config` before the fetch has returned
NoConfig == [absent |-> TRUE]

----------------------------------------------------------------------------
(* validator.py: ConfigValidator.validate *)

Digits == {"0", "1", "2", "3", "4", "5", "6", "7", "8", "9"}

DigitVal(c) ==
    CASE c = "0" -> 0 [] c = "1" -> 1 [] c = "2" -> 2 [] c = "3" -> 3
      [] c = "4" -> 4 [] c = "5" -> 5 [] c = "6" -> 6 [] c = "7" -> 7
      [] c = "8" -> 8 [] c = "9" -> 9

RECURSIVE DigitsVal(_)
DigitsVal(s) ==
    IF s = <<>> THEN 0 ELSE 10 * DigitsVal(Front(s)) + DigitVal(Last(s))

\* int(s) of Python on a string of sign and digit characters and of other
\* characters that make it raise ValueError
ParseInt(s) ==
    LET signed == Len(s) >= 1 /\ s[1] \in {"+", "-"}
        body   == IF signed THEN Tail(s) ELSE s
        ok     == Len(body) >= 1 /\ \A i \in 1..Len(body) : body[i] \in Digits
    IN  IF ~ok THEN [ok |-> FALSE, value |-> 0]
        ELSE [ok |-> TRUE,
              value |-> IF signed /\ s[1] = "-" THEN 0 - DigitsVal(body)
                        ELSE DigitsVal(body)]

\* str.lower() on one character of the modelled alphabet
Lower(c) == CASE c = "M" -> "m" [] c = "G" -> "g" [] OTHER -> c

\* name.replace('-', '').isalnum() for the names of the model
NameIsAlnumHyphen(name) == name \in {"light", "blog", "my-app"}

\* domain.endswith('.volodic.com')
EndsWithSuffix(domain) ==
    /\ Len(domain) >= 3
    /\ SubSeq(domain, Len(domain) - 1, Len(domain)) = PlatformSuffix

RequiredFields == <<"version", "service", "routing", "resources", "healthcheck">>

RECURSIVE MissingFieldErrors(_, _)
MissingFieldErrors(config, fields) ==
    IF fields = <<>> THEN <<>>
    ELSE (IF Has(config, Head(fields)) THEN <<>>
          ELSE <<"Missing required field: " \o Head(fields)>>)
         \o MissingFieldErrors(config, Tail(fields))

VersionErrors(config) ==
    IF Has(config, "version") /\ config.version = "1.0" THEN <<>>
    ELSE <<"Invalid version, must be '1.0'">>

ServiceErrors(config) ==
    IF ~Has(config, "service") THEN <<>>
    ELSE (IF ~Has(config.service, "name") THEN <<"Missing service.name">>
          ELSE IF ~NameIsAlnumHyphen(config.service.name)
               THEN <<"Service name must be alphanumeric with hyphens only">>
               ELSE <<>>)
         \o (IF ~Has(config.service, "image") THEN <<"Missing service.image">> ELSE <<>>)

RoutingErrors(config) ==
    IF ~Has(config, "routing") THEN <<>>
    ELSE (IF ~Has(config.routing, "domain") THEN <<"Missing routing.domain">>
          ELSE IF ~EndsWithSuffix(config.routing.domain)
               THEN <<"Domain must end with .volodic.com">>
               ELSE <<>>)
         \o (IF ~Has(config.routing, "port") THEN <<"Missing routing.port">>
             ELSE IF ~(PORT_MIN <= config.routing.port /\ config.routing.port <= PORT_MAX)
                  THEN <<"Port must be between 3000 and 9999">>
                  ELSE <<>>)

\* the bounds compared one off: 64m refused, 2g accepted
MemoryErrorsOffByOne(mem) ==
    LET n == ParseInt(IF mem = <<>> THEN <<>> ELSE Front(mem))
    IN  (IF mem # <<>> /\ Last(mem) \in {"m", "M", "g", "G"} THEN <<>>
         ELSE <<"Memory must end with m/M/g/G">>)
        \o (IF ~n.ok THEN <<"Invalid memory format">>
            ELSE IF Lower(Last(mem)) = "g" /\ n.value > MEM_MAX_G + 1
                 THEN <<"Memory limit exceeds 1GB">>
                 ELSE IF Lower(Last(mem)) = "m" /\ n.value <= MEM_MIN_M
                      THEN <<"Memory must be at least 64m">>
                      ELSE <<>>)

MemoryErrors(mem) ==
    LET n == ParseInt(IF mem = <<>> THEN <<>> ELSE Front(mem))
    IN  (IF mem # <<>> /\ Last(mem) \in {"m", "M", "g", "G"} THEN <<>>
         ELSE <<"Memory must end with m/M/g/G">>)
        \o (IF ~n.ok THEN <<"Invalid memory format">>
            ELSE IF Lower(Last(mem)) = "g" /\ n.value > MEM_MAX_G
                 THEN <<"Memory limit exceeds 1GB">>
                 ELSE IF Lower(Last(mem)) = "m" /\ n.value < MEM_MIN_M
                      THEN <<"Memory must be at least 64m">>
                      ELSE <<>>)

ResourcesErrors(config) ==
    IF ~Has(config, "resources") THEN <<>>
    ELSE IF ~Has(config.resources, "memory") THEN <<"Missing resources.memory">>
         ELSE MemoryErrors(config.resources.memory)

DeploymentErrors(config) ==
    IF ~Has(config, "deployment") THEN <<>>
    ELSE LET deploy == config.deployment
         IN  (IF Has(deploy, "privileged") /\ deploy.privileged
              THEN <<"Privileged mode is not allowed">> ELSE <<>>)
             \o (IF Has(deploy, "cap_add") /\ deploy.cap_add # <<>>
                 THEN <<"Adding capabilities is not allowed">> ELSE <<>>)
             \o (IF Has(deploy, "network_mode") /\ deploy.network_mode \in {"host", "none"}
                 THEN <<"Host/none network mode not allowed">> ELSE <<>>)

VolumeErrorsOf(vol) ==
    (IF ~Has(vol, "path") THEN <<"Volume missing path">>
     ELSE IF ~(Len(vol.path) >= 2 /\ vol.path[1] = "app")
          THEN <<"Volume path must start with /app/">>
          ELSE <<>>)
    \o (IF Has(vol, "path") /\ \E i \in 1..Len(vol.path) : vol.path[i] = ".."
        THEN <<"Path traversal not allowed in volumes">> ELSE <<>>)

RECURSIVE VolumesErrorsOfList(_)
VolumesErrorsOfList(vols) ==
    IF vols = <<>> THEN <<>>
    ELSE VolumeErrorsOf(Head(vols)) \o VolumesErrorsOfList(Tail(vols))

VolumesErrors(config) ==
    IF ~Has(config, "volumes") THEN <<>> ELSE VolumesErrorsOfList(config.volumes)

\* the list `errors` that validate returns; is_valid is validate(config) = <<>>
validate(config) ==
    MissingFieldErrors(config, RequiredFields)
    \o VersionErrors(config)
    \o ServiceErrors(config)
    \o RoutingErrors(config)
    \o ResourcesErrors(config)
    \o DeploymentErrors(config)
    \o VolumesErrors(config)

\* The Python types of the scalars validate calls a method on or compares.
\* yaml.safe_load gives `name: 123` as an int, `port: "3000"` as a str and
\* `memory: 64` as an int; the config holds the scalar as it is written and
\* `types` the type it was loaded with.
WellTyped == [name |-> "str", domain |-> "str", port |-> "int", memory |-> "str"]

\* the exception of the first expression of validate that fails on a type:
\* name.replace and domain.endswith and mem.endswith exist on str only, and
\* 3000 <= port is not defined between int and str
ValidateRaises(config, types) ==
    IF Has(config, "service") /\ Has(config.service, "name") /\ types.name # "str"
    THEN "AttributeError"
    ELSE IF Has(config, "routing") /\ Has(config.routing, "domain")
            /\ types.domain # "str"
    THEN "AttributeError"
    ELSE IF Has(config, "routing") /\ Has(config.routing, "port")
            /\ types.port = "str"
    THEN "TypeError"
    ELSE IF Has(config, "resources") /\ Has(config.resources, "memory")
            /\ types.memory # "str"
    THEN "AttributeError"
    ELSE "none"

\* a call of ConfigValidator.validate: the exception that leaves it, or the
\* pair (is_valid, errors) it returns
ValidateOutcome(config, types) ==
    LET exception == ValidateRaises(config, types)
    IN  IF exception # "none"
        THEN [raised |-> TRUE, exception |-> exception,
              is_valid |-> FALSE, errors |-> <<>>]
        ELSE [raised |-> FALSE, exception |-> "none",
              is_valid |-> validate(config) = <<>>, errors |-> validate(config)]

----------------------------------------------------------------------------
(* api.py: validate_deployment_config *)

validate_deployment_config(config) ==
    \A field \in {"service", "routing", "resources"} : Has(config, field)

----------------------------------------------------------------------------
(* api.py: the webhook requests and verify_webhook_signature *)

\* a request body: a JSON envelope, or bytes that json.loads rejects
JsonBody(repo, action, service) ==
    [json |-> TRUE, repo |-> repo, action |-> action, service |-> service]

MalformedBody == [json |-> FALSE, repo |-> "", action |-> "", service |-> ""]

Repos == {"volodicd/geminae_serpens", "evil/repo"}

Actions == {"deployment", "push"}

\* the service matters to an event that is acted on only
Bodies ==
    {JsonBody(r, a, "light") : r \in Repos, a \in Actions}
    \cup {JsonBody(r, "deployment", s) : r \in ALLOWED_REPOS, s \in Services}
    \cup {MalformedBody}

\* the raw bytes of a body, as a number
BodyCode(body) ==
    IF ~body.json THEN 0
    ELSE 1 + (IF body.repo = "volodicd/geminae_serpens" THEN 0 ELSE 4)
           + (IF body.action = "deployment" THEN 0 ELSE 2)
           + (IF body.service = "light" THEN 0 ELSE 1)

\* hmac.new(key, msg, sha256).hexdigest(): a keyed digest of the raw body
HmacSha256(key, body) == (7 * key + 5 * BodyCode(body)) % HashMod

\* the X-Hub-Signature-256 header: absent, or a string
NoHeader == [present |-> FALSE, ascii |-> TRUE, scheme |-> "", digest |-> 0]

EmptyHeader == [present |-> TRUE, ascii |-> TRUE, scheme |-> "", digest |-> 0]

SigHeader(scheme, digest) ==
    [present |-> TRUE, ascii |-> TRUE, scheme |-> scheme, digest |-> digest]

\* a header value with a byte above 0x7f, which the framework decodes as latin-1
NonAsciiHeader == [present |-> TRUE, ascii |-> FALSE, scheme |-> "sha256=", digest |-> 0]

Headers ==
    {NoHeader, EmptyHeader, NonAsciiHeader}
    \cup {SigHeader("sha256=", d) : d \in 0..(HashMod - 1)}
    \cup {SigHeader("sha1=", HmacSha256(WEBHOOK_SECRET, b)) : b \in Bodies}

\* "true", "false", or "raise": hmac.compare_digest raises TypeError on a str
\* with a non-ASCII character
verify_webhook_signature(payload_body, signature) ==
    LET expected_signature ==
            SigHeader("sha256=", HmacSha256(WEBHOOK_SECRET, payload_body))
    IN  IF ~signature.ascii THEN "raise"
        ELSE IF expected_signature = signature THEN "true" ELSE "false"

\* line 100: repo_name not in ALLOWED_REPOS, negated
RepoAllowedAny(body) == TRUE

RepoAllowed(body) == body.repo \in ALLOWED_REPOS

\* line 104
IsDeploymentAny(body) == TRUE

IsDeployment(body) == body.action = "deployment"

HttpError(code, detail) == [status |-> code, body |-> [detail |-> detail]]

Ok(body) == [status |-> 200, body |-> body]

NoRequest == [sig |-> NoHeader, body |-> MalformedBody]

NoResponse == [status |-> 0, body |-> [detail |-> ""]]

\* the task had deploy_service been awaited in the handler: already at its fetch
NewTaskAwaited(request, ack) ==
    [service   |-> request.body.service,
     repo      |-> request.body.repo,
     request   |-> request,
     ack       |-> ack,
     pc        |-> "fetching",
     config    |-> NoConfig,
     deployOk  |-> "none",
     routeOk   |-> "none",
     portOk    |-> "none",
     log       |-> "none"]

\* a deploy_service task as asyncio.create_task leaves it: not yet started
NewTask(request, ack) ==
    [service   |-> request.body.service,
     repo      |-> request.body.repo,
     request   |-> request,
     ack       |-> ack,
     pc        |-> "scheduled",
     config    |-> NoConfig,
     deployOk  |-> "none",
     routeOk   |-> "none",
     portOk    |-> "none",
     log       |-> "none"]

\* the response of deploy_webhook and the tasks after it
WebhookOutcome(request, tasks) ==
    LET sig  == request.sig
        body == request.body
    IN  IF ~sig.present \/ sig = EmptyHeader
        THEN [resp |-> HttpError(401, "Missing signature"), tasks |-> tasks]
        ELSE IF verify_webhook_signature(body, sig) = "raise"
        THEN [resp |-> HttpError(500, "Internal Server Error"), tasks |-> tasks]
        ELSE IF verify_webhook_signature(body, sig) = "false"
        THEN [resp |-> HttpError(401, "Invalid signature"), tasks |-> tasks]
        ELSE IF ~body.json
        THEN [resp |-> HttpError(500, "Internal Server Error"), tasks |-> tasks]
        ELSE IF ~RepoAllowed(body)
        THEN [resp |-> HttpError(403, "Repository not allowed"), tasks |-> tasks]
        ELSE IF IsDeployment(body)
        THEN LET ack == Ok([status |-> "deployment_started", service |-> body.service])
             IN  [resp |-> ack, tasks |-> Append(tasks, NewTask(request, ack))]
        ELSE [resp |-> Ok([status |-> "ignored", reason |-> "Not a deployment event"]),
              tasks |-> tasks]

\* POST /webhook/deploy
deploy_webhook(sig, body) ==
    LET request == [sig |-> sig, body |-> body]
        out     == WebhookOutcome(request, pipelines)
    IN  /\ cur = 0
        /\ Len(out.tasks) <= MaxPipelines
        /\ req' = request
        /\ resp' = out.resp
        /\ pipelines' = out.tasks
        /\ UNCHANGED <<checked, cur, stack, cfFile, cfBackups, portsFile, portsBackups, now,
                       calls>>

----------------------------------------------------------------------------
(* The two config files and their backup directories *)

CatchAll == [hostname |-> <<>>, path |-> "", service |-> [host |-> "http_status", port |-> 404]]

\* a file that was opened for writing and not written to the end
Torn == [valid |-> FALSE, ingress |-> <<>>]

TornPorts == [valid |-> FALSE, ports |-> <<>>, updated |-> 0]

NoBackups == [t \in {} |-> Torn]

Times == 0..MaxTime

\* datetime.now() of the next call when the clock has advanced by one of
\* `ticks` seconds since the last one: the clock does not run backwards
NextTimes(ticks) == {t \in Times : t - now \in ticks}

\* _backup_config: shutil.copy2 to <backup_dir>/<prefix>_<timestamp>.<ext>; a
\* backup of the same second is overwritten
BackupConfig(file, backups, t) ==
    [x \in (DOMAIN backups) \cup {t} |-> IF x = t THEN file ELSE backups[x]]

\* _restore_config taking the backup sorted first
RestoreConfigOldest(file, backups) ==
    IF DOMAIN backups = {} THEN file
    ELSE backups[CHOOSE t \in DOMAIN backups : \A u \in DOMAIN backups : t <= u]

\* _restore_config: the file after copying the backup sorted last over it (the
\* copy itself is taken to succeed)
RestoreConfig(file, backups) ==
    IF DOMAIN backups = {} THEN file ELSE backups[Max(DOMAIN backups)]

CfFailPoints == {"none", "backup", "read", "write", "restart"}

PortsFailPoints == {"none", "backup", "read", "write"}

----------------------------------------------------------------------------
(* cloudflare_manager.py: CloudflareManager.add_service *)

PathEntries(service_name, routing_config) ==
    IF ~Has(routing_config, "paths") THEN <<>>
    ELSE [i \in 1..Len(routing_config.paths) |->
            [hostname |-> routing_config.domain,
             path     |-> routing_config.paths[i].path,
             service  |-> [host |-> service_name, port |-> routing_config.paths[i].port]]]

\* the inserts of lines 59-81 made at the end of the list
NewIngressAppended(ingress_list, service_name, routing_config) ==
    LET new_entry == [hostname |-> routing_config.domain,
                      path     |-> "",
                      service  |-> [host |-> service_name, port |-> routing_config.port]]
    IN  Append(ingress_list \o PathEntries(service_name, routing_config), new_entry)

\* the ingress list after the inserts of lines 59-81
NewIngress(ingress_list, service_name, routing_config) ==
    LET insert_position == Len(ingress_list) - 1
        new_entry == [hostname |-> routing_config.domain,
                      path     |-> "",
                      service  |-> [host |-> service_name, port |-> routing_config.port]]
        with_paths == InsertAll(ingress_list, insert_position,
                                Reverse(PathEntries(service_name, routing_config)))
    IN  InsertAt(with_paths, insert_position, new_entry)

\* add_service writing the table of the start of the process with the new
\* rules, not the table it has just read
CfAddServiceStale(service_name, routing_config, fail, t, file, backups) ==
    LET saved == BackupConfig(file, backups, t)
    IN  IF fail = "backup"
        THEN [ok |-> FALSE, file |-> RestoreConfig(file, backups), backups |-> backups]
        ELSE IF fail = "read" \/ ~file.valid
                \/ ~Has(routing_config, "domain") \/ ~Has(routing_config, "port")
        THEN [ok |-> FALSE, file |-> RestoreConfig(file, saved), backups |-> saved]
        ELSE IF fail = "write"
        THEN [ok |-> FALSE, file |-> RestoreConfig(Torn, saved), backups |-> saved]
        ELSE [ok      |-> fail # "restart",
              file    |-> [valid |-> TRUE,
                           ingress |-> NewIngress(<<CatchAll>>, service_name, routing_config)],
              backups |-> saved]

\* the result of add_service, the file and the backups after it; `fail` is the
\* step at which the environment makes the call fail, t the clock at the backup
CfAddService(service_name, routing_config, fail, t, file, backups) ==
    LET saved == BackupConfig(file, backups, t)
    IN  IF fail = "backup"
        THEN [ok |-> FALSE, file |-> RestoreConfig(file, backups), backups |-> backups]
        ELSE IF fail = "read" \/ ~file.valid
                \/ ~Has(routing_config, "domain") \/ ~Has(routing_config, "port")
        THEN [ok |-> FALSE, file |-> RestoreConfig(file, saved), backups |-> saved]
        ELSE IF fail = "write"
        THEN [ok |-> FALSE, file |-> RestoreConfig(Torn, saved), backups |-> saved]
        ELSE [ok      |-> fail # "restart",
              file    |-> [valid |-> TRUE,
                           ingress |-> NewIngress(file.ingress, service_name, routing_config)],
              backups |-> saved]

----------------------------------------------------------------------------
(* cloudflare_manager.py: CloudflareManager.remove_service *)

\* a filter that drops the bare-hostname rule of the domain only
KeptIngressBare(ingress_list, domain) ==
    SelectSeq(ingress_list, LAMBDA entry : entry.hostname # domain \/ entry.path # "")

\* a filter that drops the rules of the domain and the rule without hostname
KeptIngressNoCatchAll(ingress_list, domain) ==
    SelectSeq(ingress_list, LAMBDA entry : entry.hostname # domain /\ entry.hostname # <<>>)

\* the rules kept by the filter of lines 110-113
KeptIngress(ingress_list, domain) ==
    SelectSeq(ingress_list, LAMBDA entry : entry.hostname # domain)

\* the result of remove_service, the file and the backups after it
CfRemoveService(service_name, domain, fail, t, file, backups) ==
    LET saved == BackupConfig(file, backups, t)
    IN  IF fail = "backup"
        THEN [ok |-> FALSE, file |-> RestoreConfig(file, backups), backups |-> backups]
        ELSE IF fail = "read" \/ ~file.valid
        THEN [ok |-> FALSE, file |-> RestoreConfig(file, saved), backups |-> saved]
        ELSE IF fail = "write"
        THEN [ok |-> FALSE, file |-> RestoreConfig(Torn, saved), backups |-> saved]
        ELSE [ok      |-> fail # "restart",
              file    |-> [valid |-> TRUE, ingress |-> KeptIngress(file.ingress, domain)],
              backups |-> saved]

----------------------------------------------------------------------------
(* cloudflare_manager.py: CloudflareManager.get_current_config *)

\* `port` of a rule whose service URL does not contain 'localhost:'
PortNone == -1

RECURSIVE StripPlatform(_, _)
\* hostname.replace('.volodic.com', '') from label k on: the labels volodic, com
\* that follow a dot are dropped, left to right
StripPlatform(hostname, k) ==
    IF k > Len(hostname) THEN <<>>
    ELSE IF k >= 2 /\ k + 1 <= Len(hostname)
            /\ <<hostname[k], hostname[k + 1]>> = PlatformSuffix
    THEN StripPlatform(hostname, k + 2)
    ELSE <<hostname[k]>> \o StripPlatform(hostname, k + 1)

\* the 'services' list; a read that fails yields []
CfGetCurrentConfig(file, fail) ==
    IF fail = "read" \/ ~file.valid THEN <<>>
    ELSE LET named == SelectSeq(file.ingress,
                                LAMBDA ingress : /\ ingress.hostname # <<>>
                                                 /\ ingress.hostname # PlatformSuffix)
         IN  [k \in 1..Len(named) |->
                [domain |-> named[k].hostname,
                 port   |-> IF named[k].service.host = "localhost"
                            THEN named[k].service.port ELSE PortNone,
                 name   |-> StripPlatform(named[k].hostname, 1)]]

----------------------------------------------------------------------------
(* ports_manager.py: PortsManager.get_current_config, add_service,          *)
(* remove_service                                                          *)

\* a read that fails yields {'ports': []}
PortsGetCurrentConfig(file, fail) ==
    IF fail = "read" \/ ~file.valid
    THEN [valid |-> TRUE, ports |-> <<>>, updated |-> 0]
    ELSE file

\* line 47 seeing no port
ExternalPortsNone(ports) == {}

ExternalPorts(ports) == {ports[i].external_port : i \in 1..Len(ports)}

\* add_service writing the file, with a new timestamp, also when the port is
\* in the table already
PortsAddServiceRewriting(service_name, routing_config, fail, t, file, backups) ==
    LET saved  == BackupConfig(file, backups, t)
        config == PortsGetCurrentConfig(file, fail)
    IN  IF fail = "backup"
        THEN [ok |-> FALSE, file |-> RestoreConfig(file, backups), backups |-> backups]
        ELSE IF ~Has(routing_config, "port")
        THEN [ok |-> FALSE, file |-> RestoreConfig(file, saved), backups |-> saved]
        ELSE IF fail = "write"
        THEN [ok |-> FALSE, file |-> RestoreConfig(TornPorts, saved), backups |-> saved]
        ELSE [ok      |-> TRUE,
              file    |-> [valid   |-> TRUE,
                           ports   |-> IF routing_config.port \in ExternalPorts(config.ports)
                                       THEN config.ports
                                       ELSE Append(config.ports,
                                                   [name          |-> service_name,
                                                    external_port |-> routing_config.port,
                                                    internal_port |-> routing_config.port,
                                                    protocol      |-> "tcp",
                                                    enabled       |-> TRUE]),
                           updated |-> t],
              backups |-> saved]

\* add_service reporting a port that is in the table already as a failure
PortsAddServiceRefusing(service_name, routing_config, fail, t, file, backups) ==
    LET saved  == BackupConfig(file, backups, t)
        config == PortsGetCurrentConfig(file, fail)
        new_entry == [name          |-> service_name,
                      external_port |-> routing_config.port,
                      internal_port |-> routing_config.port,
                      protocol      |-> "tcp",
                      enabled       |-> TRUE]
    IN  IF fail = "backup"
        THEN [ok |-> FALSE, file |-> RestoreConfig(file, backups), backups |-> backups]
        ELSE IF ~Has(routing_config, "port")
        THEN [ok |-> FALSE, file |-> RestoreConfig(file, saved), backups |-> saved]
        ELSE IF routing_config.port \in ExternalPorts(config.ports)
        THEN [ok |-> FALSE, file |-> file, backups |-> saved]
        ELSE IF fail = "write"
        THEN [ok |-> FALSE, file |-> RestoreConfig(TornPorts, saved), backups |-> saved]
        ELSE [ok      |-> TRUE,
              file    |-> [valid |-> TRUE, ports |-> Append(config.ports, new_entry),
                           updated |-> t],
              backups |-> saved]

PortsAddService(service_name, routing_config, fail, t, file, backups) ==
    LET saved  == BackupConfig(file, backups, t)
        config == PortsGetCurrentConfig(file, fail)
        new_entry == [name          |-> service_name,
                      external_port |-> routing_config.port,
                      internal_port |-> routing_config.port,
                      protocol      |-> "tcp",
                      enabled       |-> TRUE]
    IN  IF fail = "backup"
        THEN [ok |-> FALSE, file |-> RestoreConfig(file, backups), backups |-> backups]
        ELSE IF ~Has(routing_config, "port")
        THEN [ok |-> FALSE, file |-> RestoreConfig(file, saved), backups |-> saved]
        ELSE IF routing_config.port \in ExternalPorts(config.ports)
        THEN [ok |-> TRUE, file |-> file, backups |-> saved]
        ELSE IF fail = "write"
        THEN [ok |-> FALSE, file |-> RestoreConfig(TornPorts, saved), backups |-> saved]
        ELSE [ok      |-> TRUE,
              file    |-> [valid |-> TRUE, ports |-> Append(config.ports, new_entry),
                           updated |-> t],
              backups |-> saved]

\* the records kept by the filter of lines 81-84
KeptPorts(ports, service_name) ==
    SelectSeq(ports, LAMBDA port : port.name # service_name)

\* remove_service reporting a service that is not in the table as a failure
PortsRemoveServiceStrict(service_name, fail, t, file, backups) ==
    LET saved  == BackupConfig(file, backups, t)
        config == PortsGetCurrentConfig(file, fail)
        kept   == KeptPorts(config.ports, service_name)
    IN  IF fail = "backup"
        THEN [ok |-> FALSE, file |-> RestoreConfig(file, backups), backups |-> backups]
        ELSE IF Len(kept) = Len(config.ports)
        THEN [ok |-> FALSE, file |-> file, backups |-> saved]
        ELSE IF fail = "write"
        THEN [ok |-> FALSE, file |-> RestoreConfig(TornPorts, saved), backups |-> saved]
        ELSE [ok      |-> TRUE,
              file    |-> [valid |-> TRUE, ports |-> kept, updated |-> t],
              backups |-> saved]

\* lines 70-103
PortsRemoveService(service_name, fail, t, file, backups) ==
    LET saved  == BackupConfig(file, backups, t)
        config == PortsGetCurrentConfig(file, fail)
        kept   == KeptPorts(config.ports, service_name)
    IN  IF fail = "backup"
        THEN [ok |-> FALSE, file |-> RestoreConfig(file, backups), backups |-> backups]
        ELSE IF Len(kept) = Len(config.ports)
        THEN [ok |-> TRUE, file |-> file, backups |-> saved]
        ELSE IF fail = "write"
        THEN [ok |-> FALSE, file |-> RestoreConfig(TornPorts, saved), backups |-> saved]
        ELSE [ok      |-> TRUE,
              file    |-> [valid |-> TRUE, ports |-> kept, updated |-> t],
              backups |-> saved]

----------------------------------------------------------------------------
(* api.py: get_allocations *)

\* the body of GET /serpens/allocations; the port table is read and not used.
\* Both get_current_config catch what their read raises, so nothing reaches the
\* except clause of lines 64-66.
get_allocations(cf_file, ports_file, cf_fail, ports_fail) ==
    LET cf_config    == CfGetCurrentConfig(cf_file, cf_fail)
        ports_config == PortsGetCurrentConfig(ports_file, ports_fail)
        allocations  == [k \in 1..Len(cf_config) |->
                            [domain  |-> cf_config[k].domain,
                             port    |-> cf_config[k].port,
                             service |-> cf_config[k].name]]
    IN  [allocations |-> allocations,
         stats       |-> [total_services |-> Len(allocations),
                          ports_range    |-> <<PORT_MIN, PORT_MAX>>]]

----------------------------------------------------------------------------
(* swarm_deployer.py: SwarmDeployer.deploy *)

\* the keys deploy reads with [] (a missing one raises KeyError, caught: False)
SwarmConfigComplete(config) ==
    /\ Has(config.service, "image")
    /\ Has(config, "deployment")
    /\ Has(config.resources, "memory")
    /\ Has(config.routing, "port")
    /\ (Has(config, "volumes") =>
            \A i \in 1..Len(config.volumes) :
                Has(config.volumes[i], "name") /\ Has(config.volumes[i], "path"))

\* orchestrator_ok: the stack file is written and `docker stack deploy` exits 0
SwarmDeploy(config, orchestrator_ok) == SwarmConfigComplete(config) /\ orchestrator_ok

----------------------------------------------------------------------------
(* api.py: deploy_service, one action per step of the task.  The task is    *)
(* suspended only while it awaits the HTTP fetch; from the return of the    *)
(* fetch to its end it holds the event loop (cur).                          *)

Tasks == DOMAIN pipelines

SetTask(i, fields) ==
    [pipelines EXCEPT ![i] = [k \in DOMAIN pipelines[i] |->
        IF k \in DOMAIN fields THEN fields[k] ELSE pipelines[i][k]]]

\* the result of fetch_service_config when the HTTP status is not 200
FetchFailed == [absent |-> FALSE]

\* the task starts: logs, and awaits the GET of serpens.yml
DeployServiceStart(i) ==
    /\ cur = 0
    /\ pipelines[i].pc = "scheduled"
    /\ pipelines' = SetTask(i, [pc |-> "fetching"])
    /\ UNCHANGED <<checked, calls, req, resp, cur, stack, cfFile, cfBackups, portsFile,
                   portsBackups, now>>

\* the fetch step without the except clause of lines 144-145: the exception of
\* a failed GET ends the task, which is then neither done nor failed
DeployServiceFetchUncaught(i, fetched) ==
    /\ cur = 0
    /\ pipelines[i].pc = "fetching"
    /\ IF fetched = FetchFailed
       THEN /\ pipelines' = SetTask(i, [pc |-> "raised"])
            /\ cur' = 0
       ELSE /\ pipelines' = SetTask(i, [pc |-> "fetched", config |-> fetched])
            /\ cur' = i
    /\ UNCHANGED <<checked, calls, req, resp, stack, cfFile, cfBackups, portsFile,
                   portsBackups, now>>

\* the GET returns: the parsed config, or an exception that line 144 catches
DeployServiceFetch(i, fetched) ==
    /\ cur = 0
    /\ pipelines[i].pc = "fetching"
    /\ IF fetched = FetchFailed
       THEN /\ pipelines' = SetTask(i, [pc |-> "failed", log |-> "error"])
            /\ cur' = 0
       ELSE /\ pipelines' = SetTask(i, [pc |-> "fetched", config |-> fetched])
            /\ cur' = i
    /\ UNCHANGED <<checked, calls, req, resp, stack, cfFile, cfBackups, portsFile,
                   portsBackups, now>>

\* lines 125-128
DeployServiceValidate(i) ==
    /\ cur = i
    /\ pipelines[i].pc = "fetched"
    /\ IF validate_deployment_config(pipelines[i].config)
       THEN /\ pipelines' = SetTask(i, [pc |-> "validated"])
            /\ cur' = i
       ELSE /\ pipelines' = SetTask(i, [pc |-> "failed", log |-> "invalid"])
            /\ cur' = 0
    /\ UNCHANGED <<checked, calls, req, resp, stack, cfFile, cfBackups, portsFile,
                   portsBackups, now>>

\* lines 130-142 without the test of `success`
DeployServiceSwarmUnchecked(i, orchestrator_ok) ==
    /\ cur = i
    /\ pipelines[i].pc = "validated"
    /\ pipelines' = SetTask(i, [pc |-> "deployed",
                                deployOk |-> IF SwarmDeploy(pipelines[i].config, orchestrator_ok)
                                             THEN "ok" ELSE "fail"])
    /\ stack' = IF SwarmDeploy(pipelines[i].config, orchestrator_ok)
                THEN stack \cup {pipelines[i].service} ELSE stack
    /\ cur' = i
    /\ UNCHANGED <<checked, calls, req, resp, cfFile, cfBackups, portsFile, portsBackups, now>>

\* lines 130-142 behind a conflict check that makes no exception for the
\* service's own rule: a domain that is in the routing table ends the run
DeployServiceSwarmConflictChecked(i, orchestrator_ok) ==
    LET taken == \E k \in 1..Len(cfFile.ingress) :
                     cfFile.ingress[k].hostname = pipelines[i].config.routing.domain
    IN  /\ cur = i
        /\ pipelines[i].pc = "validated"
        /\ IF ~taken /\ SwarmDeploy(pipelines[i].config, orchestrator_ok)
           THEN /\ pipelines' = SetTask(i, [pc |-> "deployed", deployOk |-> "ok"])
                /\ stack' = stack \cup {pipelines[i].service}
                /\ cur' = i
           ELSE /\ pipelines' = SetTask(i, [pc |-> "failed",
                                            deployOk |-> IF taken THEN "none" ELSE "fail",
                                            log |-> "failed"])
                /\ stack' = stack
                /\ cur' = 0
        /\ UNCHANGED <<checked, calls, req, resp, cfFile, cfBackups, portsFile,
                       portsBackups, now>>

\* lines 130-133 and 141-142 with a deploy that suspends the task: the event
\* loop is free when swarm.deploy has returned
DeployServiceSwarmAwaiting(i, orchestrator_ok) ==
    /\ cur = i
    /\ pipelines[i].pc = "validated"
    /\ IF SwarmDeploy(pipelines[i].config, orchestrator_ok)
       THEN /\ pipelines' = SetTask(i, [pc |-> "deployed", deployOk |-> "ok"])
            /\ stack' = stack \cup {pipelines[i].service}
       ELSE /\ pipelines' = SetTask(i, [pc |-> "failed", deployOk |-> "fail",
                                        log |-> "failed"])
            /\ stack' = stack
    /\ cur' = 0
    /\ UNCHANGED <<checked, calls, req, resp, cfFile, cfBackups, portsFile, portsBackups, now>>

\* lines 130-133 and 141-142
DeployServiceSwarm(i, orchestrator_ok) ==
    /\ cur = i
    /\ pipelines[i].pc = "validated"
    /\ IF SwarmDeploy(pipelines[i].config, orchestrator_ok)
       THEN /\ pipelines' = SetTask(i, [pc |-> "deployed", deployOk |-> "ok"])
            /\ stack' = stack \cup {pipelines[i].service}
            /\ cur' = i
       ELSE /\ pipelines' = SetTask(i, [pc |-> "failed", deployOk |-> "fail",
                                        log |-> "failed"])
            /\ stack' = stack
            /\ cur' = 0
    /\ UNCHANGED <<checked, calls, req, resp, cfFile, cfBackups, portsFile, portsBackups, now>>

\* line 135: the result of cloudflare.add_service is not looked at
DeployServiceCloudflare(i, fail, t) ==
    LET r == CfAddService(pipelines[i].service, pipelines[i].config.routing,
                          fail, t, cfFile, cfBackups)
    IN  /\ cur = i
        /\ pipelines[i].pc = "deployed"
        /\ pipelines' = SetTask(i, [pc |-> "routed",
                                    routeOk |-> IF r.ok THEN "ok" ELSE "fail"])
        /\ cfFile' = r.file
        /\ cfBackups' = r.backups
        /\ now' = t
        /\ UNCHANGED <<checked, calls, req, resp, cur, stack, portsFile, portsBackups>>

\* line 138 with a compensation of the earlier steps when the port update fails
DeployServicePortsCompensating(i, fail, t) ==
    LET r == PortsAddService(pipelines[i].service, pipelines[i].config.routing,
                             fail, t, portsFile, portsBackups)
        kept == SelectSeq(cfFile.ingress,
                          LAMBDA e : e.hostname # pipelines[i].config.routing.domain)
    IN  /\ cur = i
        /\ pipelines[i].pc = "routed"
        /\ pipelines' = SetTask(i, [pc |-> "ported",
                                    portOk |-> IF r.ok THEN "ok" ELSE "fail"])
        /\ portsFile' = r.file
        /\ portsBackups' = r.backups
        /\ now' = t
        /\ cfFile' = IF r.ok THEN cfFile ELSE [cfFile EXCEPT !.ingress = kept]
        /\ stack' = IF r.ok THEN stack ELSE stack \ {pipelines[i].service}
        /\ UNCHANGED <<checked, calls, req, resp, cur, cfBackups>>

\* line 138: the result of ports.add_service is not looked at
DeployServicePorts(i, fail, t) ==
    LET r == PortsAddService(pipelines[i].service, pipelines[i].config.routing,
                             fail, t, portsFile, portsBackups)
    IN  /\ cur = i
        /\ pipelines[i].pc = "routed"
        /\ pipelines' = SetTask(i, [pc |-> "ported",
                                    portOk |-> IF r.ok THEN "ok" ELSE "fail"])
        /\ portsFile' = r.file
        /\ portsBackups' = r.backups
        /\ now' = t
        /\ UNCHANGED <<checked, calls, req, resp, cur, stack, cfFile, cfBackups>>

\* line 140
DeployServiceDone(i) ==
    /\ cur = i
    /\ pipelines[i].pc = "ported"
    /\ pipelines' = SetTask(i, [pc |-> "done", log |-> "success"])
    /\ cur' = 0
    /\ UNCHANGED <<checked, calls, req, resp, stack, cfFile, cfBackups, portsFile,
                   portsBackups, now>>

----------------------------------------------------------------------------
(* Calls made on the two managers from outside a task: any caller of        *)
(* add_service and remove_service.  The coroutines contain no await, so a   *)
(* call runs from its first line to its return while no task is running.    *)

NoCall == [op |-> "none"]

\* `calls` once the call c on the CloudflareManager has returned: c, and the
\* call before it when that one was an add_service that returned True
CfCalled(c) ==
    [calls EXCEPT !.cf = c,
                  !.prev = IF calls.cf.op = "add" /\ calls.cf.ok THEN calls.cf ELSE NoCall]

\* `calls` once the call c on the PortsManager has returned
PortsCalled(c) == [calls EXCEPT !.ports = c]

CallCfAddService(service_name, routing_config, fail, t) ==
    LET r == CfAddService(service_name, routing_config, fail, t, cfFile, cfBackups)
    IN  /\ cur = 0
        /\ Len(cfFile.ingress) <= MaxIngress
        /\ cfFile' = r.file
        /\ cfBackups' = r.backups
        /\ now' = t
        /\ calls' = CfCalled([op |-> "add", name |-> service_name,
                              routing |-> routing_config, fail |-> fail, at |-> t,
                              ok |-> r.ok, before |-> cfFile])
        /\ UNCHANGED <<checked, req, resp, pipelines, cur, stack, portsFile, portsBackups>>

CallCfRemoveService(service_name, domain, fail, t) ==
    LET r == CfRemoveService(service_name, domain, fail, t, cfFile, cfBackups)
    IN  /\ cur = 0
        /\ cfFile' = r.file
        /\ cfBackups' = r.backups
        /\ now' = t
        /\ calls' = CfCalled([op |-> "remove", name |-> service_name,
                              domain |-> domain, fail |-> fail, at |-> t,
                              ok |-> r.ok, before |-> cfFile])
        /\ UNCHANGED <<checked, req, resp, pipelines, cur, stack, portsFile, portsBackups>>

CallPortsAddService(service_name, routing_config, fail, t) ==
    LET r == PortsAddService(service_name, routing_config, fail, t,
                             portsFile, portsBackups)
    IN  /\ cur = 0
        /\ portsFile' = r.file
        /\ portsBackups' = r.backups
        /\ now' = t
        /\ calls' = PortsCalled([op |-> "add", name |-> service_name,
                                 routing |-> routing_config, fail |-> fail, at |-> t,
                                 ok |-> r.ok, before |-> portsFile])
        /\ UNCHANGED <<checked, req, resp, pipelines, cur, stack, cfFile, cfBackups>>

CallPortsRemoveService(service_name, fail, t) ==
    LET r == PortsRemoveService(service_name, fail, t, portsFile, portsBackups)
    IN  /\ cur = 0
        /\ portsFile' = r.file
        /\ portsBackups' = r.backups
        /\ now' = t
        /\ calls' = PortsCalled([op |-> "remove", name |-> service_name,
                                 fail |-> fail, at |-> t,
                                 ok |-> r.ok, before |-> portsFile])
        /\ UNCHANGED <<checked, req, resp, pipelines, cur, stack, cfFile, cfBackups>>

----------------------------------------------------------------------------
(* validate.py (the action run on a pull request): check_conflicts.  The    *)
(* lines of `errors` are records of what the message says.                  *)

\* requests.get or response.json() raised
ApiDown == [down |-> TRUE]

\* the number of suggestions put in a message (lines 60 and 70)
SUGGESTED == 3

\* f"{base}<suffix>.volodic.com" on the labels of base
WithSuffix(base, suffix) ==
    (IF base = <<>> THEN <<suffix>> ELSE Front(base) \o <<Last(base) \o suffix>>)
    \o PlatformSuffix

\* f"<prefix>{base}.volodic.com"
WithPrefix(prefix, base) ==
    (IF base = <<>> THEN <<prefix>> ELSE <<prefix \o Head(base)>> \o Tail(base))
    \o PlatformSuffix

\* lines 51-57
Suggestions(domain) ==
    LET base == StripPlatform(domain, 1)
    IN  <<WithSuffix(base, "-2"), WithSuffix(base, "-app"),
          WithPrefix("my-", base), WithPrefix("suck-my-", base)>>

\* line 58 keeping every suggestion
AvailableAll(suggestions, taken_domains) == suggestions

\* line 58
Available(suggestions, taken_domains) ==
    SelectSeq(suggestions, LAMBDA x : x \notin taken_domains)

RECURSIVE FreePorts(_, _, _)
\* lines 66-71: the scan of range(3000, 10000) from p on
FreePorts(p, taken_ports, free_ports) ==
    IF p > PORT_MAX \/ Len(free_ports) = SUGGESTED THEN free_ports
    ELSE FreePorts(p + 1, taken_ports,
                   IF p \notin taken_ports THEN Append(free_ports, p) ELSE free_ports)

\* the list check_conflicts returns; whatever raises inside it, a missing key
\* included, turns the whole result into the one warning of line 77
check_conflicts(config, existing) ==
    IF \/ existing = ApiDown
       \/ ~Has(existing, "allocations")
       \/ ~Has(config, "routing")
       \/ ~Has(config.routing, "domain")
       \/ ~Has(config.routing, "port")
    THEN <<[kind |-> "unknown"]>>
    ELSE LET taken_domains == {existing.allocations[k].domain :
                                  k \in 1..Len(existing.allocations)}
             taken_ports   == {existing.allocations[k].port :
                                  k \in 1..Len(existing.allocations)}
             domain        == config.routing.domain
             port          == config.routing.port
             available     == Available(Suggestions(domain), taken_domains)
             top           == SubSeq(available, 1,
                                     IF Len(available) < SUGGESTED
                                     THEN Len(available) ELSE SUGGESTED)
         IN  (IF domain \notin taken_domains THEN <<>>
              ELSE <<[kind |-> "domain_taken", domain |-> domain]>>
                   \o (IF available = <<>> THEN <<>>
                       ELSE <<[kind |-> "suggestions", domains |-> top]>>))
             \o (IF port \notin taken_ports THEN <<>>
                 ELSE <<[kind |-> "port_taken", port |-> port],
                        [kind |-> "available_ports",
                         ports |-> FreePorts(PORT_MIN, taken_ports, <<>>)]>>)

----------------------------------------------------------------------------
(* validate.py: validate_memory, the schema, main *)

\* validate_memory: int(memory_str[:-1]) raises ValueError when the string in
\* front of the unit is no integer; any other unit than m or g passes
validate_memory(memory_str) ==
    LET n == ParseInt(IF memory_str = <<>> THEN <<>> ELSE Front(memory_str))
    IN  IF ~n.ok THEN [raised |-> TRUE, error |-> "none"]
        ELSE IF Lower(Last(memory_str)) = "g" /\ n.value > MEM_MAX_G
        THEN [raised |-> FALSE, error |-> "memory_high"]
        ELSE IF Lower(Last(memory_str)) = "m" /\ n.value < MEM_MIN_M
        THEN [raised |-> FALSE, error |-> "memory_low"]
        ELSE [raised |-> FALSE, error |-> "none"]

\* jsonschema.validate(config, SCHEMA) raises no ValidationError: SCHEMA binds
\* the deployment block and the volumes only
SchemaValid(config) ==
    /\ Has(config, "deployment") =>
          LET deploy == config.deployment
          IN  /\ DOMAIN deploy \subseteq {"replicas", "privileged", "network_mode",
                                          "cap_add", "cap_drop"}
              /\ Has(deploy, "replicas") => deploy.replicas \in 1..3
              /\ Has(deploy, "privileged") => ~deploy.privileged
              /\ Has(deploy, "network_mode") => deploy.network_mode \in {"bridge", "overlay"}
              /\ ~Has(deploy, "cap_add")
    /\ Has(config, "volumes") =>
          \A i \in 1..Len(config.volumes) :
              /\ Has(config.volumes[i], "name")
              /\ Has(config.volumes[i], "path")
              /\ Len(config.volumes[i].path) >= 2
              /\ config.volumes[i].path[1] = "app"

\* services/<service_name>/serpens.yml does not exist
NoSerpensYml == [missing |-> TRUE]

\* main: the exit status of the action, the lines it prints as errors, and
\* whether it ends on an exception that nothing catches (validate_memory on a
\* malformed memory, the prints of lines 152-154 on a missing key)
main(service_name, config, existing) ==
    IF config = NoSerpensYml
    THEN [exit |-> 1, raised |-> FALSE, errors |-> <<[kind |-> "missing_file"]>>]
    ELSE
    LET has_memory == Has(config, "resources") /\ Has(config.resources, "memory")
        mem        == IF has_memory THEN validate_memory(config.resources.memory)
                      ELSE [raised |-> FALSE, error |-> "none"]
        checked_   == (IF SchemaValid(config) THEN <<>> ELSE <<[kind |-> "schema"]>>)
                      \o (IF mem.error = "none" THEN <<>> ELSE <<[kind |-> mem.error]>>)
        conflicts  == IF checked_ = <<>> THEN check_conflicts(config, existing) ELSE <<>>
        named      == Has(config, "service") /\ Has(config.service, "name")
                      /\ config.service.name = service_name
        errors     == checked_ \o conflicts
                      \o (IF named THEN <<>> ELSE <<[kind |-> "name_mismatch"]>>)
    IN  IF mem.raised THEN [exit |-> 1, raised |-> TRUE, errors |-> <<>>]
        ELSE IF errors # <<>> THEN [exit |-> 1, raised |-> FALSE, errors |-> errors]
        ELSE IF ~has_memory THEN [exit |-> 1, raised |-> TRUE, errors |-> <<>>]
        ELSE [exit |-> 0, raised |-> FALSE, errors |-> <<>>]

----------------------------------------------------------------------------
(* Calls of the functions that read and check *)

NoCheck == [fn |-> "none"]

\* GET /serpens/allocations while the read of a table fails or not
CallGetAllocations(cf_fail, ports_fail) ==
    /\ cur = 0
    /\ checked' = [fn     |-> "get_allocations",
                   input  |-> [cf_fail |-> cf_fail, ports_fail |-> ports_fail],
                   output |-> Ok(get_allocations(cfFile, portsFile, cf_fail, ports_fail))]
    /\ UNCHANGED <<req, resp, pipelines, cur, stack, cfFile, cfBackups,
                   portsFile, portsBackups, now, calls>>

\* check_conflicts on a config, the allocation API answering `existing`
CallCheckConflicts(config, existing) ==
    /\ checked' = [fn     |-> "check_conflicts",
                   input  |-> [config |-> config, existing |-> existing],
                   output |-> check_conflicts(config, existing)]
    /\ UNCHANGED <<req, resp, pipelines, cur, stack, cfFile, cfBackups,
                   portsFile, portsBackups, now, calls>>

\* python validate.py <service_name>
CallMain(service_name, config, existing) ==
    /\ checked' = [fn     |-> "main",
                   input  |-> [service_name |-> service_name, config |-> config,
                               existing |-> existing],
                   output |-> main(service_name, config, existing)]
    /\ UNCHANGED <<req, resp, pipelines, cur, stack, cfFile, cfBackups,
                   portsFile, portsBackups, now, calls>>

\* ConfigValidator.validate on a parsed serpens.yml
CallValidate(config, types) ==
    /\ checked' = [fn     |-> "validate",
                   input  |-> [config |-> config, types |-> types],
                   output |-> ValidateOutcome(config, types)]
    /\ UNCHANGED <<req, resp, pipelines, cur, stack, cfFile, cfBackups,
                   portsFile, portsBackups, now, calls>>

\* validate_memory of validate.py on config['resources']['memory']
CallValidateMemory(memory_str) ==
    /\ checked' = [fn     |-> "validate_memory",
                   input  |-> [memory |-> memory_str],
                   output |-> validate_memory(memory_str)]
    /\ UNCHANGED <<req, resp, pipelines, cur, stack, cfFile, cfBackups,
                   portsFile, portsBackups, now, calls>>

----------------------------------------------------------------------------
(* The state machine *)

Init ==
    /\ req = NoRequest
    /\ resp = NoResponse
    /\ pipelines = <<>>
    /\ cur = 0
    /\ stack = {}
    /\ cfFile = [valid |-> TRUE, ingress |-> <<CatchAll>>]
    /\ cfBackups = NoBackups
    /\ portsFile = [valid |-> TRUE, ports |-> <<>>, updated |-> 0]
    /\ portsBackups = NoBackups
    /\ now = 0
    /\ calls = [cf |-> NoCall, prev |-> NoCall, ports |-> NoCall]
    /\ checked = NoCheck

\* the steps the system takes when the environment draws the requests, the
\* fetched files, the failing steps of the table updates and the seconds
\* between two readings of the clock from the given sets
NextFor(requests, files, cfFails, portsFails, ticks) ==
    \/ \E r \in requests : deploy_webhook(r.sig, r.body)
    \/ \E i \in Tasks : DeployServiceStart(i)
    \/ \E i \in Tasks, fetched \in files \cup {FetchFailed} :
          /\ fetched \in Configs => fetched.service.name = pipelines[i].service
          /\ DeployServiceFetch(i, fetched)
    \/ \E i \in Tasks : DeployServiceValidate(i)
    \/ \E i \in Tasks, orchestrator_ok \in BOOLEAN : DeployServiceSwarm(i, orchestrator_ok)
    \/ \E i \in Tasks, fail \in cfFails, t \in NextTimes(ticks) :
          DeployServiceCloudflare(i, fail, t)
    \/ \E i \in Tasks, fail \in portsFails, t \in NextTimes(ticks) :
          DeployServicePorts(i, fail, t)
    \/ \E i \in Tasks : DeployServiceDone(i)

\* every request anyone can send
Requests == {[sig |-> h, body |-> b] : h \in Headers, b \in Bodies}

\* the deliveries of the hook of an allowed repository: signed with the secret
HookRequests ==
    {r \in Requests : /\ r.body.json
                      /\ r.body.repo \in ALLOWED_REPOS
                      /\ r.sig = SigHeader("sha256=", HmacSha256(WEBHOOK_SECRET, r.body))}

\* The pipeline under the deliveries of the hook.  The files are a good one, one
\* per way of being bad, and one that asks for what another service holds; a
\* table update can fail at each of its steps; all updates fall within one
\* second of the clock.
Next ==
    NextFor(HookRequests, {CfgLight, CfgBadPort, CfgNoResources, CfgBlogClash},
            CfFailPoints, PortsFailPoints, {0})

Spec == Init /\ [][Next]_vars

\* The gateway under every request, the pipelines it starts running on two
\* files of one service and ending done or failed.
NextGateway ==
    NextFor(Requests, {CfgLight, CfgNoResources}, {"none"}, {"none"}, {0})

SpecGateway == Init /\ [][NextGateway]_vars

\* The pipeline when every external call returns: the GET answers or fails, the
\* orchestrator accepts or rejects, a table update succeeds or fails at its
\* write or at the reload of the proxy.
NextLive ==
    NextFor(HookRequests, {CfgLight}, {"none", "write", "restart"},
            {"none", "write"}, {0})

\* the calls made on the CloudflareManager when the environment draws the
\* configs, the failing steps and the seconds between two calls from the sets
CfCalls(configs, fails, ticks) ==
    \/ \E c \in configs, fail \in fails, t \in NextTimes(ticks) :
          CallCfAddService(c.service.name, c.routing, fail, t)
    \/ \E c \in configs, fail \in fails, t \in NextTimes(ticks) :
          CallCfRemoveService(c.service.name, c.routing.domain, fail, t)

\* the calls made on the PortsManager
PortsCalls(configs, fails, ticks) ==
    \/ \E c \in configs, fail \in fails, t \in NextTimes(ticks) :
          CallPortsAddService(c.service.name, c.routing, fail, t)
    \/ \E c \in configs, fail \in fails, t \in NextTimes(ticks) :
          CallPortsRemoveService(c.service.name, fail, t)

\* The routing table under calls of add_service and remove_service in any
\* order, for a service with and one without sub-paths, failing at any step,
\* one second or less apart.
NextRouting == CfCalls({CfgLight, CfgBlogPaths}, CfFailPoints, {0, 1})

SpecRouting == Init /\ [][NextRouting]_vars

\* The port table under calls of add_service and remove_service in any order,
\* for two services, two ports and a port that both services ask for.
NextPorts == PortsCalls({CfgLight, CfgBlogPaths, CfgBlogClash}, PortsFailPoints, {0, 1})

SpecPorts == Init /\ [][NextPorts]_vars

\* Both tables under calls that succeed or fail at their last step.
NextTables ==
    \/ CfCalls({CfgLight, CfgBlogPaths}, {"none", "restart"}, {0})
    \/ PortsCalls({CfgLight, CfgBlogPaths}, {"none", "write"}, {0})

SpecTables == Init /\ [][NextTables]_vars

\* The allocation query between updates of the two tables, the read of each
\* table failing or not.
NextQuery ==
    \/ CfCalls({CfgLight, CfgBlogPaths}, {"none"}, {0})
    \/ PortsCalls({CfgLight, CfgBlogPaths}, {"none"}, {0})
    \/ \E cf_fail \in {"none", "read"}, ports_fail \in {"none", "read"} :
          CallGetAllocations(cf_fail, ports_fail)

SpecQuery == Init /\ [][NextQuery]_vars

\* an allocation as GET /serpens/allocations lists it
Allocation(domain, port) ==
    [domain |-> domain, port |-> port, service |-> StripPlatform(domain, 1)]

\* the allocations the API can hold, in the order of the routing table: two
\* services, and three of the domains check_conflicts suggests for the first
KnownAllocations ==
    <<Allocation(Dom("light"), 3000), Allocation(Dom("blog"), PortNone),
      Allocation(Dom("light-2"), 3001), Allocation(Dom("light-app"), PortNone),
      Allocation(Dom("my-light"), 3002)>>

\* the answers of the API: any of them listed, or no answer
ApiAnswers ==
    {[allocations |-> SelectSeq(KnownAllocations, LAMBDA a : a \in S),
      stats       |-> [total_services |-> Cardinality(S),
                       ports_range    |-> <<PORT_MIN, PORT_MAX>>]] :
        S \in SUBSET {KnownAllocations[k] : k \in 1..Len(KnownAllocations)}}
    \cup {ApiDown}

\* the configs of a pull request: free or taken domain and port, no resources
\* block, a block the schema refuses
PullRequestConfigs ==
    {BaseConfig("light", Dom(base), port) : base \in {"light", "blog", "shop"},
                                            port \in {3000, 3001, 3003}}
    \cup {CfgNoResources, CfgHostNetwork}

\* The action on pull requests under every answer of the API.
NextConflicts ==
    \/ \E config \in PullRequestConfigs, existing \in ApiAnswers :
          CallCheckConflicts(config, existing)
    \/ \E service_name \in Services, config \in PullRequestConfigs \cup {NoSerpensYml},
          existing \in ApiAnswers :
          CallMain(service_name, config, existing)

SpecConflicts == Init /\ [][NextConflicts]_vars

\* the documents handed to validate: every memory string, every network
\* mode, the configs of the pipeline, and three documents with a scalar of
\* another type than the code expects
ValidatorDocuments ==
    {<<CfgWithMemory(mem), WellTyped>> : mem \in MemStrings \cup MemStringsOther}
    \cup {<<CfgWithNetworkMode(mode), WellTyped>> : mode \in NetworkModes}
    \cup {<<config, WellTyped>> : config \in Configs}
    \cup {<<CfgWithMemory(<<"6", "4">>), [WellTyped EXCEPT !.memory = "int"]>>,
          <<CfgLight, [WellTyped EXCEPT !.port = "str"]>>,
          <<BaseConfig("123", Dom("light"), 3000), [WellTyped EXCEPT !.name = "int"]>>}

\* The two validators called on every document and memory string.
NextValidator ==
    \/ \E doc \in ValidatorDocuments : CallValidate(doc[1], doc[2])
    \/ \E memory_str \in MemStrings \cup MemStringsOther :
          CallValidateMemory(memory_str)

SpecValidator == Init /\ [][NextValidator]_vars

\* The pipelines of two services with their own domains and ports, started
\* by deliveries in any order; a table update succeeds or fails at its write,
\* and the updates are one second or less apart.
NextConcurrent ==
    NextFor(HookRequests, {CfgLight, CfgBlog}, {"none", "write"}, {"none", "write"},
            {0, 1})

SpecConcurrent == Init /\ [][NextConcurrent]_vars

\* some step of the task of run i
DeployService(i) == NextLive /\ i \in Tasks /\ pipelines'[i] # pipelines[i]

\* asyncio runs every task that is ready, and a call that returns makes the
\* task that awaits it ready
SpecLive ==
    Init /\ [][NextLive]_vars /\ \A i \in 1..MaxPipelines : WF_vars(DeployService(i))

----------------------------------------------------------------------------
(* Vocabulary of the properties *)

\* the header equals 'sha256=' + HMAC-SHA256(secret, raw body)
SignatureMatches(r) ==
    r.sig = SigHeader("sha256=", HmacSha256(WEBHOOK_SECRET, r.body))

\* the step is the handling of a webhook request
WebhookStep == req' # req \/ resp' # resp \/ Len(pipelines') # Len(pipelines)

\* the step is a step of pipeline run i
RunStep(i) == i \in DOMAIN pipelines /\ pipelines'[i] # pipelines[i]

Started(service) == Ok([status |-> "deployment_started", service |-> service])

Terminal(i) == pipelines[i].pc \in {"done", "failed"}

\* the routing table or the port table gives the domain or the port of run i's
\* config to another service than the one run i deploys
OwnedByOther(i) ==
    LET routing == pipelines[i].config.routing
        service == pipelines[i].service
    IN  \/ \E k \in 1..Len(cfFile.ingress) :
              /\ cfFile.ingress[k].hostname = routing.domain
              /\ cfFile.ingress[k].service.host # service
        \/ \E k \in 1..Len(portsFile.ports) :
              /\ portsFile.ports[k].external_port = routing.port
              /\ portsFile.ports[k].name # service

----------------------------------------------------------------------------
(* C1..C6: the deploy pipeline *)

\* C1: in every run each step starts only if the previous one succeeded: the
\* stack deploy only on a validated config, RoutingUpdater.add only after a
\* successful deploy, and PortUpdater.add only after a RoutingUpdater.add that
\* returned success.
C1_StepsOnlyAfterSuccess ==
    \A i \in Tasks :
        /\ pipelines[i].deployOk # "none" => validate_deployment_config(pipelines[i].config)
        /\ pipelines[i].routeOk # "none" => pipelines[i].deployOk = "ok"
        /\ pipelines[i].portOk # "none" => pipelines[i].routeOk = "ok"

\* C2: a run whose fetched config has at least one Validator violation never
\* passes validation: StackDeployer.deploy is not invoked, no table update is
\* made, and the run ends failed.
C2_ViolationStopsRun ==
    \A i \in Tasks :
        (pipelines[i].config \in Configs /\ validate(pipelines[i].config) # <<>>) =>
            /\ pipelines[i].pc \in {"fetched", "failed"}
            /\ pipelines[i].deployOk = "none"
            /\ pipelines[i].routeOk = "none"
            /\ pipelines[i].portOk = "none"

\* C3: a run whose StackDeployer.deploy returned false performs no
\* RoutingUpdater.add and no PortUpdater.add and ends failed, and no step of
\* that run changes the routing table, the port table or their backups.
C3_DeployFailureIsTerminal ==
    /\ [](\A i \in Tasks :
            pipelines[i].deployOk = "fail" =>
                /\ pipelines[i].routeOk = "none"
                /\ pipelines[i].portOk = "none"
                /\ pipelines[i].pc = "failed")
    /\ [][\A i \in Tasks :
            (RunStep(i) /\ pipelines'[i].deployOk = "fail") => UNCHANGED tables]_vars

\* a run failed at the stack deploy while another run had filled the tables
C3_Witness ==
    \E i \in Tasks :
        /\ pipelines[i].deployOk = "fail"
        /\ pipelines[i].pc = "failed"
        /\ Len(cfFile.ingress) > 1
        /\ Len(portsFile.ports) > 0

\* C4: a run for a service that is not deployed yet, whose candidate domain or
\* port is owned by a different service, is stopped before any external
\* mutation: its next step deploys no stack and changes no table.
C4_ConflictRejectedBeforeMutation ==
    [][\A i \in Tasks :
        (/\ pipelines[i].pc = "validated"
         /\ pipelines[i].service \notin stack
         /\ OwnedByOther(i)
         /\ RunStep(i)) =>
            /\ pipelines'[i].pc = "failed"
            /\ stack' = stack
            /\ UNCHANGED tables]_vars

\* C5: a run is done (success logged) only if the stack deploy, the routing add
\* and the port add all reported success; a run whose routing add or port add
\* reported failure ends failed.
C5_DoneOnlyIfAllSucceeded ==
    \A i \in Tasks :
        /\ pipelines[i].pc = "done" =>
              /\ pipelines[i].deployOk = "ok"
              /\ pipelines[i].routeOk = "ok"
              /\ pipelines[i].portOk = "ok"
        /\ (Terminal(i) /\ "fail" \in {pipelines[i].routeOk, pipelines[i].portOk}) =>
              pipelines[i].pc = "failed"

\* C6: no step of a run whose stack deploy succeeded removes a stack, and a
\* failed PortUpdater.add after a successful RoutingUpdater.add leaves the
\* routing table as that add wrote it.
C6_NoCrossStepCompensation ==
    [][\A i \in Tasks :
        (RunStep(i) /\ pipelines[i].deployOk = "ok") =>
            /\ stack \subseteq stack'
            /\ (pipelines[i].routeOk = "ok" /\ pipelines'[i].portOk = "fail") =>
                  cfFile' = cfFile]_vars

\* the port add failed after the routing add succeeded: stack and rule remain
C6_Witness ==
    \E i \in Tasks :
        /\ pipelines[i].deployOk = "ok"
        /\ pipelines[i].routeOk = "ok"
        /\ pipelines[i].portOk = "fail"
        /\ pipelines[i].service \in stack
        /\ \E k \in 1..Len(cfFile.ingress) :
              cfFile.ingress[k].hostname = pipelines[i].config.routing.domain

----------------------------------------------------------------------------
(* C7..C10: the webhook gateway *)

\* C7: a request whose signature header is missing or does not equal
\* 'sha256=' + HMAC-SHA256(secret, raw body) is answered 401, starts no
\* pipeline and changes no stack and no table.
C7_BadSignatureIs401 ==
    [][(WebhookStep /\ (~req'.sig.present \/ ~SignatureMatches(req'))) =>
          /\ resp'.status = 401
          /\ pipelines' = pipelines
          /\ stack' = stack
          /\ UNCHANGED tables]_vars

\* C8: every pipeline was scheduled by a request with a valid signature, a
\* repository of the allow-list and the action "deployment", and a request that
\* lacks one of the three schedules none.
C8_ScheduledOnlyIfAllThree ==
    /\ [](\A i \in Tasks :
            /\ SignatureMatches(pipelines[i].request)
            /\ pipelines[i].request.body.repo \in ALLOWED_REPOS
            /\ pipelines[i].request.body.action = "deployment")
    /\ [][(WebhookStep /\ ~(/\ SignatureMatches(req')
                           /\ req'.body.json
                           /\ req'.body.repo \in ALLOWED_REPOS
                           /\ req'.body.action = "deployment")) =>
             pipelines' = pipelines]_vars

\* a pipeline was scheduled, and the request handled last was turned away
C8_Witness ==
    /\ Len(pipelines) > 0
    /\ resp.status \in {401, 403}

\* C9 as stated: a correctly signed request that is not acted on (repository
\* not in the allow-list, or another action than "deployment") is answered 200
\* with {status: "ignored", reason: ...}.
C9_NotActedOnIsIgnored ==
    (/\ SignatureMatches(req)
     /\ req.body.json
     /\ (req.body.repo \notin ALLOWED_REPOS \/ req.body.action # "deployment")) =>
        /\ resp.status = 200
        /\ Has(resp.body, "status") /\ resp.body.status = "ignored"
        /\ Has(resp.body, "reason")

\* C9 amended: a correctly signed request of an allow-listed repository with
\* another action than "deployment" is answered 200 with {status: "ignored",
\* reason: ...}; a correctly signed request of a repository that is not in the
\* allow-list is rejected with 403.
C9_IgnoredOrForbidden ==
    (SignatureMatches(req) /\ req.body.json) =>
        /\ (req.body.repo \in ALLOWED_REPOS /\ req.body.action # "deployment") =>
              /\ resp.status = 200
              /\ Has(resp.body, "status") /\ resp.body.status = "ignored"
              /\ Has(resp.body, "reason")
        /\ req.body.repo \notin ALLOWED_REPOS =>
              resp = HttpError(403, "Repository not allowed")

\* a signed push event of the allowed repository was answered "ignored"
C9_Witness ==
    /\ SignatureMatches(req)
    /\ req.body.json
    /\ req.body.repo \in ALLOWED_REPOS
    /\ req.body.action = "push"
    /\ resp.status = 200
    /\ Has(resp.body, "status") /\ resp.body.status = "ignored"

\* C10: the request that schedules a pipeline is answered
\* {status: "deployment_started", service: <name>} while the pipeline has not
\* executed any step (not started, nothing fetched, no stack, no table
\* changed), and the answer given for a pipeline is that one whatever state,
\* done or failed, the pipeline is in.
C10_AckBeforePipeline ==
    /\ [][Len(pipelines') > Len(pipelines) =>
            LET p == pipelines'[Len(pipelines')]
            IN  /\ resp' = Started(req'.body.service)
                /\ p.service = req'.body.service
                /\ p.pc = "scheduled"
                /\ p.config = NoConfig
                /\ p.log = "none"
                /\ stack' = stack
                /\ UNCHANGED tables]_vars
    /\ [](\A i \in Tasks : pipelines[i].ack = Started(pipelines[i].service))

\* one pipeline done, one failed, both acknowledged the same way
C10_Witness ==
    \E i, j \in Tasks :
        /\ pipelines[i].pc = "done"
        /\ pipelines[j].pc = "failed"
        /\ pipelines[i].ack = Started(pipelines[i].service)
        /\ pipelines[j].ack = Started(pipelines[j].service)

----------------------------------------------------------------------------
(* C11..C20: termination of a run, the table updaters, the allocation query *)

\* C11: every started pipeline run eventually ends done or failed when each
\* external call returns, a run that has ended stays as it ended, and a run is
\* never in another state without a step left to take: no failure of a step
\* leaves deploy_service as an exception.
C11_RunEndsDoneOrFailed ==
    /\ \A i \in 1..MaxPipelines : (i \in Tasks) ~> (i \in Tasks /\ Terminal(i))
    /\ [][\A i \in Tasks : Terminal(i) => pipelines'[i] = pipelines[i]]_vars
    /\ [](\A i \in Tasks :
            pipelines[i].pc \in {"scheduled", "fetching", "fetched", "validated",
                                 "deployed", "routed", "ported", "done", "failed"})

\* a run ended failed on the exception of the fetch, another ended done after
\* the reload of the proxy had failed
C11_Witness ==
    \E i, j \in Tasks :
        /\ pipelines[i].pc = "failed" /\ pipelines[i].log = "error"
        /\ pipelines[j].pc = "done" /\ pipelines[j].routeOk = "fail"

\* the routing table holds a rule for the domain
HasRule(ingress_list, domain) ==
    \E k \in 1..Len(ingress_list) : ingress_list[k].hostname = domain

\* C12: when RoutingUpdater.add reports failure because the reload of the
\* proxy failed, after the table file was rewritten, the routing table is
\* restored: its content equals the content before the call.
C12_ReloadFailureRestores ==
    (calls.cf.op = "add" /\ calls.cf.fail = "restart") =>
        /\ ~calls.cf.ok
        /\ cfFile = calls.cf.before

\* C13: when RoutingUpdater.add fails during the write of the table file, the
\* call reports failure and the table after it is the backup taken at the start
\* of the call, which is the content before the call, and is no partially
\* written table.
C13_WriteFailureRestores ==
    (calls.cf.op = "add" /\ calls.cf.fail = "write") =>
        /\ ~calls.cf.ok
        /\ calls.cf.at \in DOMAIN cfBackups
        /\ cfBackups[calls.cf.at] = calls.cf.before
        /\ cfFile = cfBackups[calls.cf.at]
        /\ cfFile.valid

\* an add failed at its write on a table that held rules, while the archive
\* held an older backup of another content
C13_Witness ==
    /\ calls.cf.op = "add" /\ calls.cf.fail = "write"
    /\ Len(calls.cf.before.ingress) > 1
    /\ \E t \in DOMAIN cfBackups : t < calls.cf.at /\ cfBackups[t] # cfFile

\* C14: in every routing table reachable by add and remove, every
\* path-specific rule of a domain comes before the bare-hostname rule of that
\* domain.
C14_PathRulesBeforeBareRule ==
    \A j, k \in 1..Len(cfFile.ingress) :
        (/\ cfFile.ingress[j].hostname = cfFile.ingress[k].hostname
         /\ cfFile.ingress[j].path # ""
         /\ cfFile.ingress[k].path = "") => j < k

\* C15: after any sequence of RoutingUpdater.add and RoutingUpdater.remove
\* calls, successful or failed, the routing table has exactly one catch-all
\* rule (a rule without hostname) and it is the last rule.
C15_OneCatchAllLast ==
    /\ cfFile.valid
    /\ Len(cfFile.ingress) >= 1
    /\ \A k \in 1..Len(cfFile.ingress) :
          cfFile.ingress[k].hostname = <<>> <=> k = Len(cfFile.ingress)

\* a remove dropped the rules of one domain from a table that keeps the rules
\* of another domain, after an add had succeeded
C15_Witness ==
    /\ calls.cf.op = "remove" /\ calls.cf.ok
    /\ calls.prev.op = "add"
    /\ Len(cfFile.ingress) < Len(calls.cf.before.ingress)
    /\ Len(cfFile.ingress) > 1

\* C16 as stated: for every routing table, a successful RoutingUpdater.add
\* followed by a successful RoutingUpdater.remove for the same service leaves
\* the rules, in their order, as they were before the add.
C16_AddRemoveRoundTrip ==
    (/\ calls.cf.op = "remove" /\ calls.cf.ok
     /\ calls.prev.op = "add"
     /\ calls.prev.name = calls.cf.name
     /\ calls.prev.routing.domain = calls.cf.domain) =>
        cfFile.ingress = calls.prev.before.ingress

\* C16 amended: for every routing table that holds no rule for the domain of
\* the service, a successful RoutingUpdater.add followed by a successful
\* RoutingUpdater.remove for the same service leaves the rules, in their order,
\* as they were before the add.
C16_RoundTripOnFreshDomain ==
    (/\ calls.cf.op = "remove" /\ calls.cf.ok
     /\ calls.prev.op = "add"
     /\ calls.prev.name = calls.cf.name
     /\ calls.prev.routing.domain = calls.cf.domain
     /\ ~HasRule(calls.prev.before.ingress, calls.cf.domain)) =>
        cfFile.ingress = calls.prev.before.ingress

\* a service with sub-paths was added to a table that held the rule of another
\* service, and removed again
C16_Witness ==
    /\ calls.cf.op = "remove" /\ calls.cf.ok
    /\ calls.prev.op = "add"
    /\ calls.prev.name = calls.cf.name
    /\ calls.prev.routing.domain = calls.cf.domain
    /\ Has(calls.prev.routing, "paths")
    /\ ~HasRule(calls.prev.before.ingress, calls.cf.domain)
    /\ Len(calls.prev.before.ingress) > 1
    /\ cfFile.ingress = calls.prev.before.ingress

\* the port table holds the record of the service for the port
HasPort(ports, service_name, port) ==
    \E k \in 1..Len(ports) :
        ports[k].name = service_name /\ ports[k].external_port = port

\* C17: when the port table already holds the record for the same service and
\* the same port, a second PortUpdater.add whose backup and read succeed
\* reports success and leaves the port table, records and updated timestamp,
\* unchanged.
C17_SecondAddIsNoOp ==
    (/\ calls.ports.op = "add"
     /\ calls.ports.fail \notin {"backup", "read"}
     /\ HasPort(calls.ports.before.ports, calls.ports.name, calls.ports.routing.port)) =>
        /\ calls.ports.ok
        /\ portsFile = calls.ports.before

\* the second add came a second after the table was written, on a table of
\* two records
C17_Witness ==
    /\ calls.ports.op = "add"
    /\ calls.ports.fail = "none"
    /\ HasPort(calls.ports.before.ports, calls.ports.name, calls.ports.routing.port)
    /\ Len(calls.ports.before.ports) = 2
    /\ calls.ports.at > calls.ports.before.updated
    /\ portsFile = calls.ports.before

\* C18: after any sequence of PortUpdater.add and PortUpdater.remove calls,
\* each of which runs from its first line to its return without yielding to
\* another task, no two records of the port table have the same external
\* port.
C18_ExternalPortsDistinct ==
    \A j, k \in 1..Len(portsFile.ports) :
        j # k => portsFile.ports[j].external_port # portsFile.ports[k].external_port

\* an add asked for a port that another service holds, on a table of two
\* records
C18_Witness ==
    /\ calls.ports.op = "add"
    /\ calls.ports.ok
    /\ \E k \in 1..Len(calls.ports.before.ports) :
          /\ calls.ports.before.ports[k].external_port = calls.ports.routing.port
          /\ calls.ports.before.ports[k].name # calls.ports.name
    /\ Len(portsFile.ports) = 2

\* C19: when no step of the call fails, removing a service that has no entry
\* reports success and leaves the table content unchanged, for the routing
\* table (no rule of the domain) and for the port table (no record of the
\* service; here also when the read or the write would fail).
C19_RemoveAbsentIsNoOp ==
    /\ (/\ calls.cf.op = "remove"
        /\ calls.cf.fail = "none"
        /\ ~HasRule(calls.cf.before.ingress, calls.cf.domain)) =>
           /\ calls.cf.ok
           /\ cfFile = calls.cf.before
    /\ (/\ calls.ports.op = "remove"
        /\ calls.ports.fail # "backup"
        /\ \A k \in 1..Len(calls.ports.before.ports) :
              calls.ports.before.ports[k].name # calls.ports.name) =>
           /\ calls.ports.ok
           /\ portsFile = calls.ports.before

\* the last remove on each table was for a service that had no entry, in a
\* table that held the entries of another service
C19_Witness ==
    /\ calls.cf.op = "remove" /\ calls.cf.fail = "none"
    /\ ~HasRule(calls.cf.before.ingress, calls.cf.domain)
    /\ Len(cfFile.ingress) > 1
    /\ calls.ports.op = "remove" /\ calls.ports.ok
    /\ \A k \in 1..Len(calls.ports.before.ports) :
          calls.ports.before.ports[k].name # calls.ports.name
    /\ Len(portsFile.ports) > 0

\* the allocations GET /serpens/allocations returns when both reads succeed
Allocations == get_allocations(cfFile, portsFile, "none", "none").allocations

\* C20: when a run for a service with routing domain d and port p is done and
\* the routing table still holds the service's rule for d and the port table
\* its record for p, the allocation query returns an allocation with domain d,
\* port p and that service as owner.
C20_DoneRunIsAllocated ==
    \A i \in Tasks :
        (/\ pipelines[i].pc = "done"
         /\ \E k \in 1..Len(cfFile.ingress) :
               /\ cfFile.ingress[k].hostname = pipelines[i].config.routing.domain
               /\ cfFile.ingress[k].service =
                     [host |-> pipelines[i].service,
                      port |-> pipelines[i].config.routing.port]
         /\ HasPort(portsFile.ports, pipelines[i].service,
                    pipelines[i].config.routing.port)) =>
            \E a \in 1..Len(Allocations) :
                /\ Allocations[a].domain = pipelines[i].config.routing.domain
                /\ Allocations[a].port = pipelines[i].config.routing.port
                /\ Allocations[a].service = <<pipelines[i].service>>

----------------------------------------------------------------------------
(* C21..C30 *)

\* C21: when the read of the routing table or of the port table fails, the
\* allocation query answers the request (200) with an empty allocation list
\* together with an error marker.
C21_ReadFailureIsMarked ==
    (/\ checked.fn = "get_allocations"
     /\ "read" \in {checked.input.cf_fail, checked.input.ports_fail}) =>
        /\ checked.output.status = 200
        /\ checked.output.body.allocations = <<>>
        /\ Has(checked.output.body, "error")

\* run i is a complete successful deploy that run j repeats: same service, same
\* domain and port
Redeploys(j, i) ==
    /\ i # j
    /\ pipelines[i].pc = "done"
    /\ pipelines[i].deployOk = "ok"
    /\ pipelines[i].routeOk = "ok"
    /\ pipelines[i].portOk = "ok"
    /\ pipelines[j].config # NoConfig
    /\ pipelines[j].service = pipelines[i].service
    /\ pipelines[j].config.routing = pipelines[i].config.routing

\* C22: a deploy of a service that follows a complete deploy of the same
\* service with the same domain and port is not stopped as a conflict with the
\* service's own allocation: once validated, its next step invokes
\* StackDeployer.deploy, and the run goes on when the orchestrator accepts.
C22_RedeployProceeds ==
    [][\A j \in Tasks :
        (/\ RunStep(j)
         /\ pipelines[j].pc = "validated"
         /\ \E i \in Tasks : Redeploys(j, i)) =>
            /\ pipelines'[j].deployOk # "none"
            /\ pipelines'[j].deployOk = "ok" => pipelines'[j].pc = "deployed"]_vars

\* the second deploy of the service updated the stack while the tables held the
\* allocation of the first
C22_Witness ==
    \E i, j \in Tasks :
        /\ Redeploys(j, i)
        /\ pipelines[j].deployOk = "ok"
        /\ pipelines[j].pc = "deployed"
        /\ HasRule(cfFile.ingress, pipelines[j].config.routing.domain)
        /\ HasPort(portsFile.ports, pipelines[j].service, pipelines[j].config.routing.port)

\* the domains the API lists as taken
TakenDomains(existing) ==
    {existing.allocations[k].domain : k \in 1..Len(existing.allocations)}

\* C23: check_conflicts for a candidate whose domain is already taken reports
\* exactly one domain conflict and at most 3 suggested domains, none of which
\* is taken and none of which is the candidate domain.
C23_OneDomainConflict ==
    (/\ checked.fn = "check_conflicts"
     /\ checked.input.existing # ApiDown
     /\ checked.input.config.routing.domain \in TakenDomains(checked.input.existing)) =>
        LET conflicts   == SelectSeq(checked.output, LAMBDA e : e.kind = "domain_taken")
            suggestions == SelectSeq(checked.output, LAMBDA e : e.kind = "suggestions")
        IN  /\ Len(conflicts) = 1
            /\ Len(suggestions) <= 1
            /\ \A k \in 1..Len(suggestions) :
                  /\ Len(suggestions[k].domains) \in 1..3
                  /\ \A x \in 1..Len(suggestions[k].domains) :
                        /\ suggestions[k].domains[x] \notin TakenDomains(checked.input.existing)
                        /\ suggestions[k].domains[x] # checked.input.config.routing.domain

\* the domain is taken and so is one of the four domains the function would
\* suggest: the three others are suggested
C23_Witness ==
    /\ checked.fn = "check_conflicts"
    /\ checked.input.existing # ApiDown
    /\ checked.input.config.routing.domain \in TakenDomains(checked.input.existing)
    /\ \E k \in 1..Len(checked.output) :
          /\ checked.output[k].kind = "suggestions"
          /\ Len(checked.output[k].domains) = 3
    /\ \E k \in 1..4 :
          Suggestions(checked.input.config.routing.domain)[k]
              \in TakenDomains(checked.input.existing)

\* C24: when the read of the current allocations fails, check_conflicts yields
\* only the 'unknown' warning, and main goes on as if no conflict was found:
\* it ends as it does on an API answer without allocations.
C24_UnknownDoesNotBlock ==
    (/\ checked.fn = "main"
     /\ checked.input.existing = ApiDown
     /\ checked.input.config # NoSerpensYml) =>
        /\ check_conflicts(checked.input.config, ApiDown) = <<[kind |-> "unknown"]>>
        /\ checked.output.exit =
              main(checked.input.service_name, checked.input.config,
                   [allocations |-> <<>>]).exit

\* C25: ConfigValidator.validate is total: on every document, the ones with a
\* scalar of an unexpected type included (a memory that is no string, a port
\* that is no integer, a name that is no string), a call returns the pair
\* (ok, violations) and raises nothing.
C25_ValidateNeverRaises ==
    checked.fn = "validate" => ~checked.output.raised

\* the lines of `errors` that are about resources.memory
MemoryMessages ==
    {"Memory must end with m/M/g/G", "Invalid memory format",
     "Memory limit exceeds 1GB", "Memory must be at least 64m"}

\* the last call was made on the memory string mem, by either validator
CheckedMemory(mem) ==
    \/ /\ checked.fn = "validate"
       /\ ~checked.output.raised
       /\ Has(checked.input.config, "resources")
       /\ Has(checked.input.config.resources, "memory")
       /\ checked.input.config.resources.memory = mem
    \/ /\ checked.fn = "validate_memory"
       /\ checked.input.memory = mem

\* the last call reported a violation about the memory
MemoryViolation ==
    IF checked.fn = "validate"
    THEN \E k \in 1..Len(checked.output.errors) :
            checked.output.errors[k] \in MemoryMessages
    ELSE checked.output.raised \/ checked.output.error # "none"

\* C26: on a memory string <int><m|M|g|G> both validators report a memory
\* violation exactly when the unit is the megabyte and the number is 63 or
\* less, or the unit is the gigabyte and the number is 2 or more: 64m and 1g
\* pass, 63m and 2g fail.
C26_MemoryBoundsExact ==
    \A value \in MemValues, unit \in MemUnits :
        CheckedMemory(MemString(value, unit)) =>
            (MemoryViolation <=>
                \/ unit \in {"m", "M"} /\ value <= 63
                \/ unit \in {"g", "G"} /\ value >= 2)

\* validate was called on the boundary 64m and reported nothing about memory
C26_Witness ==
    /\ checked.fn = "validate"
    /\ CheckedMemory(<<"6", "4", "m">>)
    /\ checked.input.config = CfgWithMemory(MemString(64, "m"))
    /\ ~MemoryViolation

\* C27: on every config whose deployment.network_mode is present and is
\* neither bridge nor overlay, validate reports a violation.
C27_NetworkModeAllowList ==
    /\ checked.fn = "validate"
    /\ ~checked.output.raised
    /\ Has(checked.input.config, "deployment")
    /\ Has(checked.input.config.deployment, "network_mode")
    /\ checked.input.config.deployment.network_mode \notin {"bridge", "overlay"}
    => ~checked.output.is_valid

\* run i is done and each of its steps succeeded
AllStepsOk(i) ==
    /\ pipelines[i].pc = "done"
    /\ pipelines[i].deployOk = "ok"
    /\ pipelines[i].routeOk = "ok"
    /\ pipelines[i].portOk = "ok"

\* both tables hold the entries of run i
HoldsEntries(i) ==
    /\ \E k \in 1..Len(cfFile.ingress) :
          /\ cfFile.ingress[k].hostname = pipelines[i].config.routing.domain
          /\ cfFile.ingress[k].service =
                [host |-> pipelines[i].service, port |-> pipelines[i].config.routing.port]
    /\ HasPort(portsFile.ports, pipelines[i].service, pipelines[i].config.routing.port)

\* C28: when two pipelines of two different services, with distinct domains
\* and distinct ports, have both succeeded at every step, in whatever order
\* their steps were taken, and no table update of any pipeline has failed, the
\* routing table and the port table hold the entries of both services.
C28_NoLostUpdate ==
    \A i, j \in Tasks :
        (/\ i # j
         /\ AllStepsOk(i) /\ AllStepsOk(j)
         /\ pipelines[i].service # pipelines[j].service
         /\ pipelines[i].config.routing.domain # pipelines[j].config.routing.domain
         /\ pipelines[i].config.routing.port # pipelines[j].config.routing.port
         /\ \A k \in Tasks : pipelines[k].routeOk # "fail" /\ pipelines[k].portOk # "fail")
        => HoldsEntries(i) /\ HoldsEntries(j)

\* two pipelines of two services have both succeeded at every step, and the
\* tables hold the entries of both
C28_Witness ==
    \E i, j \in Tasks :
        /\ i < j
        /\ AllStepsOk(i) /\ AllStepsOk(j)
        /\ pipelines[i].service # pipelines[j].service
        /\ HoldsEntries(i) /\ HoldsEntries(j)

\* run i has returned from its last await and has not ended: the stretch of
\* the task in which it makes its two table mutations
Running(i) == pipelines[i].pc \in {"fetched", "validated", "deployed", "routed", "ported"}

\* a config file or its backup directory is written in the step
FileStep ==
    \/ cfFile' # cfFile \/ cfBackups' # cfBackups
    \/ portsFile' # portsFile \/ portsBackups' # portsBackups

\* C29: a mutation of a config file (backup, read, modify, write, and the
\* restore on failure) is a critical section: a pipeline that is in the
\* stretch where it mutates the files holds the event loop, so no two
\* pipelines are in that stretch together, and a step that writes a file or
\* a backup is taken by the pipeline that holds the loop, from the first to
\* the last step of the mutation, while every other pipeline is suspended or
\* has ended.
C29_MutationsAreCriticalSections ==
    [][/\ \A i \in Tasks : Running(i) => cur = i
       /\ \A i \in DOMAIN pipelines' : (pipelines'[i].pc \in
              {"fetched", "validated", "deployed", "routed", "ported"}) => cur' = i
       /\ FileStep =>
             /\ cur \in Tasks /\ cur' = cur
             /\ pipelines[cur].pc \in {"deployed", "routed"}
             /\ \A j \in Tasks \ {cur} : /\ ~Running(j)
                                         /\ pipelines'[j] = pipelines[j]]_vars

\* a pipeline in the middle of its mutations, the routing table written and
\* the port table not yet, while another pipeline is suspended at its fetch
C29_Witness ==
    \E i, j \in Tasks :
        /\ i # j
        /\ pipelines[i].pc = "routed"
        /\ cur = i
        /\ pipelines[j].pc = "fetching"

\* the positions of the rules of the routing table for a hostname and a path
RulesFor(hostname, path) ==
    {k \in 1..Len(cfFile.ingress) :
        cfFile.ingress[k].hostname = hostname /\ cfFile.ingress[k].path = path}

\* C30: after two complete successful runs for the same service with the same
\* config, no table update of any run having failed, the routing table holds
\* the rule for the service's hostname once, as after the first run, and the
\* port table holds one record for the service.
C30_ResubmissionIsIdempotent ==
    \A i, j \in Tasks :
        (/\ i # j
         /\ AllStepsOk(i) /\ AllStepsOk(j)
         /\ pipelines[i].service = pipelines[j].service
         /\ pipelines[i].config = pipelines[j].config
         /\ \A k \in Tasks : pipelines[k].routeOk # "fail" /\ pipelines[k].portOk # "fail")
        => /\ Cardinality(RulesFor(pipelines[i].config.routing.domain, "")) = 1
           /\ Cardinality({k \in 1..Len(portsFile.ports) :
                              portsFile.ports[k].name = pipelines[i].service}) = 1

----------------------------------------------------------------------------
(* C31..C35: the exit paths, the backups and the frame of the table updates *)

\* C31: after an add or a remove on either table that reports failure, at
\* whatever step it failed (the backup and the first read included), the
\* content of the table equals the content it had before the call.
C31_FailureRestoresContent ==
    /\ (calls.cf.op # "none" /\ ~calls.cf.ok) => cfFile = calls.cf.before
    /\ (calls.ports.op # "none" /\ ~calls.ports.ok) => portsFile = calls.ports.before

\* C32: the backups of a table are append-only, one per mutation: a call of
\* add or remove leaves every backup that existed as it was and adds one
\* backup that holds the table as it was before the call, also when the call
\* before it was made within the same second.
C32_BackupsAppendOnly ==
    [][/\ \A t \in DOMAIN cfBackups :
             t \in DOMAIN cfBackups' /\ cfBackups'[t] = cfBackups[t]
       /\ (calls' # calls /\ calls'.cf.fail # "backup") =>
             /\ Cardinality(DOMAIN cfBackups') = Cardinality(DOMAIN cfBackups) + 1
             /\ \E t \in DOMAIN cfBackups' \ DOMAIN cfBackups : cfBackups'[t] = cfFile]_vars

\* `after` is `before` without the entries at the positions `dropped`, the
\* other entries in the order they had
WithoutPositions(before, after, dropped) ==
    LET kept == (1..Len(before)) \ dropped
    IN  /\ Len(after) = Cardinality(kept)
        /\ \A k \in kept : after[Cardinality({m \in kept : m <= k})] = before[k]

\* C33: a remove whose backup, read and write succeed deletes the entries of
\* the service and nothing else: the routing table after remove(domain) is
\* the table before it without the rules whose hostname is the domain, the
\* port table after remove(name) is the table before it without the records
\* whose name is the service; every other entry, the catch-all rule
\* included, is kept at its place in the order.
C33_RemoveDeletesOwnedOnly ==
    /\ (calls.cf.op = "remove" /\ calls.cf.fail \in {"none", "restart"}) =>
          WithoutPositions(calls.cf.before.ingress, cfFile.ingress,
                           {k \in 1..Len(calls.cf.before.ingress) :
                               calls.cf.before.ingress[k].hostname = calls.cf.domain})
    /\ (calls.ports.op = "remove" /\ calls.ports.fail = "none") =>
          WithoutPositions(calls.ports.before.ports, portsFile.ports,
                           {k \in 1..Len(calls.ports.before.ports) :
                               calls.ports.before.ports[k].name = calls.ports.name})

\* a remove took the rules of its domain, more than one, out of a routing
\* table that held the rule of another domain and the catch-all
C33_Witness ==
    /\ calls.cf.op = "remove"
    /\ calls.cf.fail = "none"
    /\ Cardinality({k \in 1..Len(calls.cf.before.ingress) :
                       calls.cf.before.ingress[k].hostname = calls.cf.domain}) >= 2
    /\ \E k \in 1..Len(calls.cf.before.ingress) :
          calls.cf.before.ingress[k].hostname \notin {calls.cf.domain, <<>>}
    /\ Len(cfFile.ingress) >= 2
    /\ ~HasRule(cfFile.ingress, calls.cf.domain)

\* C34: a PortsManager.add_service that reports success loses no record:
\* every record of the port table before the call is in the table after it,
\* also when the read of the table inside the call fails.
C34_SuccessfulAddKeepsRecords ==
    (calls.ports.op = "add" /\ calls.ports.ok) =>
        \A k \in 1..Len(calls.ports.before.ports) :
            \E m \in 1..Len(portsFile.ports) :
                portsFile.ports[m] = calls.ports.before.ports[k]

\* the port of the last add_service was held by another service before the call
PortHeldByOther ==
    \E k \in 1..Len(calls.ports.before.ports) :
        /\ calls.ports.before.ports[k].external_port = calls.ports.routing.port
        /\ calls.ports.before.ports[k].name # calls.ports.name

\* C35: a PortsManager.add_service, its backup and its read succeeding, for a
\* port that the table holds for another service leaves the port table as it
\* was, records and updated timestamp, holds no record of the calling service
\* for the port, and reports success.
C35_PortOfOtherServiceIsSkipped ==
    (/\ calls.ports.op = "add"
     /\ calls.ports.fail \notin {"backup", "read"}
     /\ PortHeldByOther) =>
        /\ calls.ports.ok
        /\ portsFile = calls.ports.before
        /\ ~HasPort(portsFile.ports, calls.ports.name, calls.ports.routing.port)

\* blog asked for the port of light one second after light had taken it
C35_Witness ==
    /\ calls.ports.op = "add"
    /\ calls.ports.fail = "none"
    /\ PortHeldByOther
    /\ calls.ports.ok
    /\ calls.ports.at > portsFile.updated
    /\ HasPort(portsFile.ports, "light", calls.ports.routing.port)

====
